---- MODULE Spec2Model ----
(***************************************************************************)
(* Reminder scheduling engine of the dentist appointment bot               *)
(* (src/index.js): the turnos table, the jobsMap registry, the timers held *)
(* by node-schedule, the init() recovery and the bot handlers.             *)
(*                                                                         *)
(* Time is counted in units of 10 minutes (the largest unit that divides   *)
(* every lead of REMINDERS and the 20 minutes of the spec's example).      *)
(***************************************************************************)
EXTENDS Integers, Sequences, FiniteSets, Bags, TLC

VARIABLES
    now,        \* DateTime.utc(): the current instant
    pc,         \* "init": process not running / module not loaded yet;
                \* "polling": init() has run, handlers and timers are served
    db,         \* rows of table turnos: records [id, chat_id, fecha_iso, descripcion]
    seq,        \* AUTOINCREMENT counter of turnos.id (last id handed out)
    jobsMap,    \* the Map key -> job of line 49
    timers,     \* node-schedule: the jobs still pending (not fired, not cancelled)
    gen,        \* per key, the number of jobs the running process has created under it
    sent,       \* history: bag of the reminders handed to bot.sendMessage
    lastSend,   \* history: the last bot.sendMessage of a reminder, [job, ok], or NoSend
    missed,     \* history: keys whose trigger instant passed while the process was down
    hist,       \* history of the direct calls of scheduleRemindersForTurno:
                \* [ncalls, lastCall, ids, doubled]
    ret,        \* the last direct call of borrarTurno: [id, chat_id, changed]
    crashes     \* how often the process has died so far

vars == <<now, pc, db, seq, jobsMap, timers, gen, sent, lastSend, missed, hist, ret, crashes>>

----------------------------------------------------------------------------
(* Bounds of the model *)

MaxTurnos == 2      \* appointments ever booked (ids 1..MaxTurnos)
MaxCalls == 3       \* direct calls of scheduleRemindersForTurno (SpecSched)
MaxKeyId == 12      \* ids over which the keys are compared with each other
MaxCrashes == 1     \* deaths of the process (SpecCrash)

----------------------------------------------------------------------------
(* Configuration: REMINDERS, lines 51-57; minus in units of 10 minutes; the
   label of 24h is written without its accent *)

\* luxon durations { days: n }, { hours: n }, { minutes: n }
Minutes(n) == n \div 10
Hours(n) == Minutes(60 * n)
Days(n) == Hours(24 * n)

\* a policy whose "2h" entry is 20 hours ahead
REMINDERSTwentyHours ==
    << [key |-> "24h", label |-> "1 dia",      minus |-> Days(1)],
       [key |-> "10h", label |-> "10 horas",   minus |-> Hours(10)],
       [key |-> "2h",  label |-> "2 horas",    minus |-> Hours(20)],
       [key |-> "1h",  label |-> "1 hora",     minus |-> Hours(1)],
       [key |-> "30m", label |-> "30 minutos", minus |-> Minutes(30)] >>

REMINDERS ==
    << [key |-> "24h", label |-> "1 dia",      minus |-> Days(1)],
       [key |-> "10h", label |-> "10 horas",   minus |-> Hours(10)],
       [key |-> "2h",  label |-> "2 horas",    minus |-> Hours(2)],
       [key |-> "1h",  label |-> "1 hora",     minus |-> Hours(1)],
       [key |-> "30m", label |-> "30 minutos", minus |-> Minutes(30)] >>

Offsets == 1..Len(REMINDERS)

Chats == {7, 8}                         \* chat ids of the subscribers
Fechas == {Minutes(20), Hours(25)}      \* target instants a booking can pick

\* line 62: when = dtUtc.minus(r.minus)
Trigger(fecha, r) == fecha - r.minus

\* a scheduler that only skips the triggers strictly before the current instant
IsElapsedStrict(when, t) == when < t

\* a scheduler that skips no trigger
IsElapsedNever(when, t) == FALSE

\* line 63: if (when <= DateTime.utc()) continue
IsElapsed(when, t) == when <= t

\* a key that leaves the offset out
JobKeyOfTurno(id, rkey) == "turno-" \o ToString(id)

\* a key that leaves the id of the turno out
JobKeyOfOffset(id, rkey) == "turno-" \o rkey

\* line 64: `turno-${turno.id}-${r.key}`
JobKey(id, rkey) == "turno-" \o ToString(id) \o "-" \o rkey

\* a replacement that leaves the old timer running
CancelNothing(job, tm) == tm

\* line 65: job.cancel() takes the job out of the pending timers
Cancel(job, tm) == tm \ {job}

\* a registration that stores nothing
MapSetNothing(jm, key, job) == jm

\* line 75: jobsMap.set(key, job)
MapSet(jm, key, job) == [k \in DOMAIN jm \cup {key} |-> IF k = key THEN job ELSE jm[k]]

\* a callback that leaves its key in the map
MapKeep(jm, key) == jm

\* line 73: jobsMap.delete(key)
MapDelete(jm, key) == [k \in DOMAIN jm \ {key} |-> jm[k]]

EmptyMap == [k \in {} |-> 0]

\* every key the ids 1..MaxTurnos can give
Keys == {JobKey(id, REMINDERS[i].key) : id \in 1..MaxTurnos, i \in Offsets}

NoJobs == [k \in Keys |-> 0]

\* The instants the clock takes: every target instant, every trigger instant
\* and the start.  Between two consecutive ones no comparison of the code
\* changes its outcome.
Instants ==
    {0} \cup Fechas \cup
    {t \in {Trigger(f, REMINDERS[i]) : f \in Fechas, i \in Offsets} : t > 0}

NextInstant(t) == CHOOSE u \in Instants : u > t /\ \A v \in Instants : v > t => u <= v

----------------------------------------------------------------------------
(* The scheduler: scheduleRemindersForTurno, lines 59-77 *)

\* lines 67-74: the job node-schedule holds; its callback closes over turno,
\* r and key.  Two job objects differ in key or in serial, the number of the
\* job among those created under its key.
NewJob(turno, r, n) ==
    [ key       |-> JobKey(turno.id, r.key),
      id        |-> turno.id,
      when      |-> Trigger(turno.fecha_iso, r),
      chat_id   |-> turno.chat_id,
      label     |-> r.label,
      fecha_iso |-> turno.fecha_iso,
      descripcion |-> turno.descripcion,
      serial    |-> n ]

\* lines 61-76: the loop body for REMINDERS[i], on st = [jobsMap, timers, gen]
ScheduleOne(turno, r, st) ==
    LET when == Trigger(turno.fecha_iso, r)
        key  == JobKey(turno.id, r.key)
        job  == NewJob(turno, r, st.gen[key] + 1)
        tm   == IF key \in DOMAIN st.jobsMap
                THEN Cancel(st.jobsMap[key], st.timers)
                ELSE st.timers
    IN  IF IsElapsed(when, now)
        THEN st
        ELSE [ jobsMap |-> MapSet(st.jobsMap, key, job),
               timers  |-> tm \cup {job},
               gen     |-> [st.gen EXCEPT ![key] = @ + 1] ]

\* a loop that stops one reminder short
RECURSIVE ScheduleLoopShort(_, _, _)
ScheduleLoopShort(i, turno, st) ==
    IF i >= Len(REMINDERS)
    THEN st
    ELSE ScheduleLoopShort(i + 1, turno, ScheduleOne(turno, REMINDERS[i], st))

RECURSIVE ScheduleLoop(_, _, _)
ScheduleLoop(i, turno, st) ==
    IF i > Len(REMINDERS)
    THEN st
    ELSE ScheduleLoop(i + 1, turno, ScheduleOne(turno, REMINDERS[i], st))

\* lines 59-77, on st = [jobsMap, timers, gen]
scheduleRemindersForTurno(turno, st) == ScheduleLoop(1, turno, st)

----------------------------------------------------------------------------
(* The repository: lines 30-46 and 81-83 *)

\* lines 30-36: agregarTurno inserts the row with the next AUTOINCREMENT id
NewRow(id, chatId, fechaISO, descripcion) ==
    [id |-> id, chat_id |-> chatId, fecha_iso |-> fechaISO, descripcion |-> descripcion]

\* a DELETE that matches the id alone
borrarTurnoAnyChat(rows, id, chatId) ==
    [ rows    |-> {row \in rows : row.id # id},
      changed |-> \E row \in rows : row.id = id ]

\* lines 44-46: DELETE FROM turnos WHERE id = ? AND chat_id = ?
borrarTurno(rows, id, chatId) ==
    [ rows    |-> {row \in rows : ~(row.id = id /\ row.chat_id = chatId)},
      changed |-> \E row \in rows : row.id = id /\ row.chat_id = chatId ]

\* lines 81-83: SELECT * FROM turnos WHERE datetime(fecha_iso) > datetime('now')
Futuros(rows, t) == {row \in rows : row.fecha_iso > t}

\* a recovery that schedules the first row only
ForFirstSchedule(rows, st) ==
    IF rows = {}
    THEN st
    ELSE LET first == CHOOSE row \in rows : \A o \in rows : row.id <= o.id
         IN  scheduleRemindersForTurno(first, st)

\* line 84: futuros.forEach(scheduleRemindersForTurno), in rowid order
RECURSIVE ForEachSchedule(_, _)
ForEachSchedule(rows, st) ==
    IF rows = {}
    THEN st
    ELSE LET first == CHOOSE row \in rows : \A o \in rows : row.id <= o.id
         IN  ForEachSchedule(rows \ {first}, scheduleRemindersForTurno(first, st))

----------------------------------------------------------------------------
(* The dispatcher: lines 68-72 *)

\* the message of the reminder of job j, with the job it came from
Msg(j) ==
    [ chat_id |-> j.chat_id,
      text    |-> <<j.label, j.fecha_iso, j.descripcion>>,
      key     |-> j.key ]

\* no turno and no job: id 0 is no AUTOINCREMENT id
NoTurno == NewRow(0, 0, 0, "")

NoSend == [job |-> NewJob(NoTurno, REMINDERS[1], 0), ok |-> TRUE]

NoCalls == [ncalls |-> 0, lastCall |-> NoTurno, ids |-> {}, doubled |-> {}]

NoReturn == [id |-> 0, chat_id |-> 0, changed |-> FALSE]

----------------------------------------------------------------------------
(* Initial state and actions *)

\* table turnos as an earlier run of the process can have left it: at most
\* one row per id, no id above the AUTOINCREMENT counter
Tables(n) ==
    {rows \in SUBSET {NewRow(id, c, f, "Turno") : id \in 1..n, c \in Chats, f \in Fechas} :
        \A x, y \in rows : x.id = y.id => x = y}

\* the process is about to start on the turnos.db it finds
Init ==
    /\ now = 0
    /\ pc = "init"
    /\ seq \in 0..MaxTurnos
    /\ db \in Tables(seq)
    /\ jobsMap = EmptyMap
    /\ timers = {}
    /\ gen = NoJobs
    /\ sent = EmptyBag
    /\ lastSend = NoSend
    /\ missed = {}
    /\ hist = NoCalls
    /\ ret = NoReturn
    /\ crashes = 0

\* lines 80-86: the init() IIFE, run once when the module loads
Recover ==
    /\ pc = "init"
    /\ LET st == ForEachSchedule(Futuros(db, now),
                    [jobsMap |-> jobsMap, timers |-> timers, gen |-> gen])
       IN  /\ jobsMap' = st.jobsMap
           /\ timers' = st.timers
           /\ gen' = st.gen
    /\ pc' = "polling"
    /\ UNCHANGED <<now, db, seq, sent, lastSend, missed, hist, ret, crashes>>

\* lines 180-192: callback_query pickHour_<date>_<hour>
PickHour(chatId, fechaISO) ==
    /\ pc = "polling"
    /\ seq < MaxTurnos
    /\ LET id    == seq + 1
           turno == NewRow(id, chatId, fechaISO, "Turno")
           st    == scheduleRemindersForTurno(turno,
                        [jobsMap |-> jobsMap, timers |-> timers, gen |-> gen])
       IN  /\ seq' = id
           /\ db' = db \cup {turno}
           /\ jobsMap' = st.jobsMap
           /\ timers' = st.timers
           /\ gen' = st.gen
    /\ UNCHANGED <<now, pc, sent, lastSend, missed, hist, ret, crashes>>

\* a /borrar served while the module is still loading
BorrarEarly(id, chatId) ==
    /\ db' = borrarTurno(db, id, chatId).rows
    /\ UNCHANGED <<now, pc, seq, jobsMap, timers, gen, sent, lastSend, missed, hist, ret, crashes>>

\* lines 148-155: /borrar ID
Borrar(id, chatId) ==
    /\ pc = "polling"
    /\ db' = borrarTurno(db, id, chatId).rows
    /\ UNCHANGED <<now, pc, seq, jobsMap, timers, gen, sent, lastSend, missed, hist, ret, crashes>>

\* a callback that, when the delivery fails, leaves the job armed to try again
FireRetrying(j, ok) ==
    /\ pc = "polling"
    /\ j \in timers
    /\ j.when <= now
    /\ sent' = sent (+) SetToBag({Msg(j)})
    /\ lastSend' = [job |-> j, ok |-> ok]
    /\ jobsMap' = IF ok THEN MapDelete(jobsMap, j.key) ELSE jobsMap
    /\ timers' = IF ok THEN timers \ {j} ELSE timers
    /\ UNCHANGED <<now, pc, db, seq, gen, missed, hist, ret, crashes>>

\* lines 67-74: the callback of job j runs; ok is the outcome of the delivery
\* bot.sendMessage starts (its promise is not awaited)
Fire(j, ok) ==
    /\ pc = "polling"
    /\ j \in timers
    /\ j.when <= now
    /\ sent' = sent (+) SetToBag({Msg(j)})
    /\ lastSend' = [job |-> j, ok |-> ok]
    /\ jobsMap' = MapDelete(jobsMap, j.key)
    /\ timers' = timers \ {j}
    /\ UNCHANGED <<now, pc, db, seq, gen, missed, hist, ret, crashes>>

\* the keys of the stored appointments whose trigger instant lies in (t, u]
Passing(t, u) ==
    {JobKey(row.id, REMINDERS[i].key) : row \in db, i \in Offsets} \cap
    UNION {{JobKey(row.id, REMINDERS[i].key) :
                i \in {n \in Offsets : /\ t < Trigger(row.fecha_iso, REMINDERS[n])
                                       /\ Trigger(row.fecha_iso, REMINDERS[n]) <= u}} :
           row \in db}

\* the clock moves on; a running process fires the due timers first
Tick ==
    /\ \E u \in Instants : u > now
    /\ pc = "polling" => \A j \in timers : j.when > now
    /\ now' = NextInstant(now)
    /\ missed' = IF pc = "init" THEN missed \cup Passing(now, NextInstant(now)) ELSE missed
    /\ UNCHANGED <<pc, db, seq, jobsMap, timers, gen, sent, lastSend, hist, ret, crashes>>

Next ==
    \/ Recover
    \/ \E chatId \in Chats, fechaISO \in Fechas : PickHour(chatId, fechaISO)
    \/ \E id \in 1..MaxTurnos, chatId \in Chats : Borrar(id, chatId)
    \/ \E j \in timers, ok \in BOOLEAN : Fire(j, ok)
    \/ Tick

Spec == Init /\ [][Next]_vars

(* The process with time passing and the timer facility doing its work: the
   module body runs to its end, the clock keeps moving, and a timer whose
   instant has come has its callback run *)

\* the step that ends init(): under Next it is the Recover step, and it can be
\* taken exactly while the process is in "init"
Loaded == pc = "init" /\ pc' = "polling"

FairSpec ==
    /\ Spec
    /\ WF_pc(Loaded)
    /\ WF_vars(Tick)
    /\ WF_vars(\E j \in timers, ok \in BOOLEAN : Fire(j, ok))

----------------------------------------------------------------------------
(* The scheduler on its own: scheduleRemindersForTurno called with any turno,
   as often as MaxCalls allows, between the ticks of the clock and the
   callbacks of the timers *)

\* the turnos passed to the calls; the chat id plays no part in scheduling
Turnos == {NewRow(id, 7, f, "Turno") : id \in 1..MaxTurnos, f \in Fechas}

InitSched ==
    /\ now = 0
    /\ pc = "polling"
    /\ seq = 0
    /\ db = {}
    /\ jobsMap = EmptyMap
    /\ timers = {}
    /\ gen = NoJobs
    /\ sent = EmptyBag
    /\ lastSend = NoSend
    /\ missed = {}
    /\ hist = NoCalls
    /\ ret = NoReturn
    /\ crashes = 0

\* one call scheduleRemindersForTurno(turno), lines 59-77
Schedule(turno) ==
    /\ pc = "polling"
    /\ hist.ncalls < MaxCalls
    /\ LET st == scheduleRemindersForTurno(turno,
                    [jobsMap |-> jobsMap, timers |-> timers, gen |-> gen])
       IN  /\ jobsMap' = st.jobsMap
           /\ timers' = st.timers
           /\ gen' = st.gen
    /\ hist' = [ ncalls   |-> hist.ncalls + 1,
                 lastCall |-> turno,
                 ids      |-> hist.ids \cup {turno.id},
                 doubled  |-> IF hist.lastCall = turno
                              THEN hist.doubled \cup {turno.id}
                              ELSE hist.doubled \ {turno.id} ]
    /\ UNCHANGED <<now, pc, db, seq, sent, lastSend, missed, ret, crashes>>

NextSched ==
    \/ \E turno \in Turnos : Schedule(turno)
    \/ \E j \in timers, ok \in BOOLEAN : Fire(j, ok)
    \/ Tick

SpecSched == InitSched /\ [][NextSched]_vars

(* The repository on its own: agregarTurno and borrarTurno called directly on
   any stored table, the returned value of borrarTurno kept in ret *)

InitRepo ==
    /\ now = 0
    /\ pc = "polling"
    /\ seq \in 0..MaxTurnos
    /\ db \in Tables(seq)
    /\ jobsMap = EmptyMap
    /\ timers = {}
    /\ gen = NoJobs
    /\ sent = EmptyBag
    /\ lastSend = NoSend
    /\ missed = {}
    /\ hist = NoCalls
    /\ ret = NoReturn
    /\ crashes = 0

\* lines 30-36: INSERT INTO turnos, the id is the next of the AUTOINCREMENT
Agregar(chatId, fechaISO) ==
    /\ seq < MaxTurnos
    /\ seq' = seq + 1
    /\ db' = db \cup {NewRow(seq + 1, chatId, fechaISO, "Turno")}
    /\ UNCHANGED <<now, pc, jobsMap, timers, gen, sent, lastSend, missed, hist, ret, crashes>>

\* one call borrarTurno(id, chatId), lines 44-46
Delete(id, chatId) ==
    /\ db' = borrarTurno(db, id, chatId).rows
    /\ ret' = [id |-> id, chat_id |-> chatId,
               changed |-> borrarTurno(db, id, chatId).changed]
    /\ UNCHANGED <<now, pc, seq, jobsMap, timers, gen, sent, lastSend, missed, hist, crashes>>

NextRepo ==
    \/ \E chatId \in Chats, fechaISO \in Fechas : Agregar(chatId, fechaISO)
    \/ \E id \in 1..MaxTurnos, chatId \in Chats : Delete(id, chatId)

SpecRepo == InitRepo /\ [][NextRepo]_vars

(* The process over several lifetimes: it may die at any moment, as often as
   MaxCrashes allows, losing jobsMap and its timers and keeping the table; the
   next start runs init() again *)

InitCrash ==
    /\ now = 0
    /\ pc = "init"
    /\ seq = 0
    /\ db = {}
    /\ jobsMap = EmptyMap
    /\ timers = {}
    /\ gen = NoJobs
    /\ sent = EmptyBag
    /\ lastSend = NoSend
    /\ missed = {}
    /\ hist = NoCalls
    /\ ret = NoReturn
    /\ crashes = 0

\* the process dies and is started again: line 49 makes a new, empty jobsMap,
\* the timers of the dead process are gone, the table and what was sent stay
Crash ==
    /\ crashes < MaxCrashes
    /\ crashes' = crashes + 1
    /\ pc' = "init"
    /\ jobsMap' = EmptyMap
    /\ timers' = {}
    /\ gen' = NoJobs
    /\ lastSend' = NoSend
    /\ UNCHANGED <<now, db, seq, sent, missed, hist, ret>>

NextCrash ==
    \/ Recover
    \/ \E fechaISO \in Fechas : PickHour(7, fechaISO)
    \/ \E j \in timers, ok \in BOOLEAN : Fire(j, ok)
    \/ Tick
    \/ Crash

SpecCrash == InitCrash /\ [][NextCrash]_vars

----------------------------------------------------------------------------
(* Properties *)

KeysOf(id) == {JobKey(id, REMINDERS[i].key) : i \in Offsets}

\* the live timers held under key k
Live(k) == {j \in timers : j.key = k}

\* the step books the row (lines 185-186)
Books(row) == row \in db' /\ row \notin db

\* the step is init() recovering the row (lines 81-84)
Recovers(row) == pc = "init" /\ pc' = "polling" /\ row \in db /\ row.fecha_iso > now

\* C1: after an appointment is deleted, no job remains in the Registry under
\* any key of its id (and so none is left to dispatch a notification).
C1_DeletedHasNoJobs ==
    \A id \in 1..seq :
        (\A row \in db : row.id # id) =>
            /\ KeysOf(id) \cap DOMAIN jobsMap = {}
            /\ \A j \in timers : j.id # id

\* C4: a call of scheduleReminders creates no job for an offset whose trigger
\* instant is <= the current instant, notifications are sent only for jobs
\* that were created, and an appointment booked 20 minutes ahead gets no job.
C4_PastOffsetsSkipped ==
    [][ /\ \A row \in db' : \A i \in Offsets :
            LET k == JobKey(row.id, REMINDERS[i].key)
            IN  row.fecha_iso - REMINDERS[i].minus <= now =>
                    /\ gen'[k] = gen[k]
                    /\ k \in DOMAIN jobsMap' => (k \in DOMAIN jobsMap /\ jobsMap'[k] = jobsMap[k])
                    /\ \A j \in timers' : j.key = k => j \in timers
        /\ \A m \in BagToSet(sent') : gen'[m.key] >= 1
        /\ \A row \in db' :
            (Books(row) /\ row.fecha_iso - now = Minutes(20)) =>
                /\ KeysOf(row.id) \cap DOMAIN jobsMap' = {}
                /\ \A j \in timers' : j.id # row.id
                /\ \A k \in KeysOf(row.id) : gen'[k] = 0
      ]_vars

\* a stored appointment with a skipped offset and a scheduled one
C4_Witness ==
    /\ pc = "polling"
    /\ \E row \in db : \E i, n \in Offsets :
        /\ gen[JobKey(row.id, REMINDERS[i].key)] = 0
        /\ row.fecha_iso - REMINDERS[i].minus <= now
        /\ JobKey(row.id, REMINDERS[n].key) \in DOMAIN jobsMap

\* C5: for an appointment at least 25 hours ahead, scheduleReminders creates
\* exactly one job per configured offset (5 jobs), each with trigger instant
\* = target instant minus the lead of its offset.
C5_AllOffsetsScheduled ==
    [][ \A row \in db' :
            ((Books(row) \/ Recovers(row)) /\ row.fecha_iso - now >= Hours(25)) =>
                /\ Cardinality({j \in timers' : j.id = row.id}) = 5
                /\ Len(REMINDERS) = 5
                /\ \A i \in Offsets :
                    LET k == JobKey(row.id, REMINDERS[i].key)
                    IN  /\ k \in DOMAIN jobsMap'
                        /\ jobsMap'[k] \in timers'
                        /\ jobsMap'[k].when = row.fecha_iso - REMINDERS[i].minus
                        /\ Cardinality({j \in timers' : j.key = k}) = 1
                        /\ gen'[k] = gen[k] + 1
      ]_vars

\* an appointment 25 hours ahead holding its five jobs
C5_Witness ==
    \E row \in db :
        /\ row.fecha_iso - now >= Hours(25)
        /\ pc = "polling"
        /\ Cardinality({j \in timers : j.id = row.id}) = 5

\* the (appointment, offset) pairs init() has to schedule: target instant and
\* trigger instant both strictly after the instant recovery runs
Recoverable ==
    {<<row, i>> \in db \X Offsets :
        row.fecha_iso > now /\ row.fecha_iso - REMINDERS[i].minus > now}

\* C6: recovery from an empty Registry schedules jobs only for the
\* appointments with a future target instant, and right after it the Registry
\* holds one job per offset of those whose trigger instant is still future.
C6_RecoveryFidelity ==
    [][ (pc = "init" /\ pc' = "polling") =>
            /\ jobsMap = EmptyMap
            /\ Cardinality(DOMAIN jobsMap') = Cardinality(Recoverable)
            /\ Cardinality(timers') = Cardinality(Recoverable)
            /\ \A p \in Recoverable :
                LET k == JobKey(p[1].id, REMINDERS[p[2]].key)
                IN  /\ k \in DOMAIN jobsMap'
                    /\ jobsMap'[k] \in timers'
                    /\ jobsMap'[k].when = p[1].fecha_iso - REMINDERS[p[2]].minus
            /\ \A j \in timers' : \E row \in db : row.id = j.id /\ row.fecha_iso > now
      ]_vars

\* after recovery: a past appointment without jobs beside a future one that
\* holds jobs for some of its offsets only
C6_Witness ==
    /\ pc = "polling"
    /\ sent = EmptyBag
    /\ seq = Cardinality(db)
    /\ \E past, fut \in db :
        /\ past.fecha_iso <= now
        /\ KeysOf(past.id) \cap DOMAIN jobsMap = {}
        /\ fut.fecha_iso > now
        /\ KeysOf(fut.id) \cap DOMAIN jobsMap # {}
        /\ ~(KeysOf(fut.id) \subseteq DOMAIN jobsMap)

\* C7: when a live job's trigger instant is reached, the Dispatcher is invoked
\* exactly once for it, with the appointment's subscriber and the offset's
\* label, and the job's key is then gone from the Registry.
C7_FireOnceAndRemove ==
    [][ sent' # sent =>
            \E j \in timers : \E i \in Offsets :
                LET m == [ chat_id |-> j.chat_id,
                           text    |-> <<REMINDERS[i].label, j.fecha_iso, "Turno">>,
                           key     |-> JobKey(j.id, REMINDERS[i].key) ]
                IN  /\ j.when <= now
                    /\ j.when = j.fecha_iso - REMINDERS[i].minus
                    /\ j.key = JobKey(j.id, REMINDERS[i].key)
                    /\ \A row \in db : row.id = j.id =>
                          row.chat_id = j.chat_id /\ row.fecha_iso = j.fecha_iso
                    /\ sent' = sent (+) SetToBag({m})
                    /\ CopiesIn(m, sent') = 1
                    /\ j.key \notin DOMAIN jobsMap'
                    /\ j \notin timers'
      ]_vars

\* a reminder has been dispatched and its key is free again
C7_Witness ==
    /\ sent # EmptyBag
    /\ lastSend.job.key \notin DOMAIN jobsMap
    /\ \E row \in db : row.id = lastSend.job.id

\* C9: a failed delivery still takes the job out of the timers and of the
\* Registry, and the delivery is attempted exactly once: nothing re-arms it.
C9_FailedDeliveryNotRetried ==
    [][ /\ (sent' # sent /\ ~lastSend'.ok) =>
            /\ lastSend'.job \in timers
            /\ lastSend'.job \notin timers'
            /\ lastSend'.job.key \notin DOMAIN jobsMap'
            /\ CopiesIn(Msg(lastSend'.job), sent') = 1
        /\ ~lastSend.ok =>
            /\ lastSend.job \notin timers'
            /\ \A j \in timers' : j.key = lastSend.job.key => j.serial > lastSend.job.serial
            /\ CopiesIn(Msg(lastSend.job), sent') = 1
      ]_vars

\* the last delivery failed and its job is gone
C9_Witness ==
    /\ ~lastSend.ok
    /\ lastSend.job.key \notin DOMAIN jobsMap
    /\ now > lastSend.job.when

\* C10: a reminder whose trigger instant passed while the process was down
\* gets no job when the process starts and recovers, and is never dispatched.
C10_MissedWhileDown ==
    \A k \in missed :
        /\ gen[k] = 0
        /\ k \notin DOMAIN jobsMap
        /\ Live(k) = {}
        /\ \A m \in BagToSet(sent) : m.key # k

\* the process runs, a reminder of a recovered appointment was missed while it
\* was down and a later reminder of the same appointment has been dispatched
C10_Witness ==
    /\ pc = "polling"
    /\ \E row \in db : \E k \in KeysOf(row.id) \cap missed : \E m \in BagToSet(sent) :
        m.key \in KeysOf(row.id) /\ m.key # k

\* the step is one direct call of scheduleRemindersForTurno (SpecSched)
Called == hist'.ncalls = hist.ncalls + 1

\* C2: two calls of scheduleReminders in succession for the same appointment
\* leave exactly one live job per offset key of the Registry, the job of the
\* second call for every offset not yet elapsed, and afterwards each reminder
\* of the appointment is dispatched at most once.
C2_IdempotentReschedule ==
    [][ /\ (Called /\ hist'.lastCall = hist.lastCall) =>
            \A i \in Offsets :
                LET t == hist'.lastCall
                    k == JobKey(t.id, REMINDERS[i].key)
                    w == t.fecha_iso - REMINDERS[i].minus
                IN  /\ Cardinality({j \in timers' : j.key = k})
                          = IF k \in DOMAIN jobsMap' THEN 1 ELSE 0
                    /\ w > now =>
                        /\ k \in DOMAIN jobsMap'
                        /\ jobsMap'[k] \in timers'
                        /\ jobsMap'[k].when = w
                        /\ gen'[k] = gen[k] + 1
        /\ \A id \in hist'.doubled : \A k \in KeysOf(id) :
            /\ Cardinality({m \in BagToSet(sent') : m.key = k}) <= 1
            /\ \A m \in BagToSet(sent') : m.key = k => CopiesIn(m, sent') = 1
      ]_vars

\* an appointment scheduled twice in succession, one reminder dispatched and
\* the next one live
C2_Witness ==
    \E id \in hist.doubled : \E k, n \in KeysOf(id) :
        /\ gen[k] = 2
        /\ \E m \in BagToSet(sent) : m.key = k
        /\ n \in DOMAIN jobsMap
        /\ gen[n] = 2

\* C3: every (appointment id, offset key) pair has at most one live timer and
\* at most one Registry entry, and the Registry never holds more entries than
\* (appointments ever scheduled) x (offsets).
C3_OneLiveJobPerPair ==
    /\ \A k \in Keys : Cardinality(Live(k)) <= 1
    /\ \A id \in 1..MaxTurnos : \A i \in Offsets :
        Cardinality({k \in DOMAIN jobsMap :
            jobsMap[k].id = id /\ jobsMap[k].label = REMINDERS[i].label}) <= 1
    /\ Cardinality(DOMAIN jobsMap) <= Cardinality(hist.ids) * Len(REMINDERS)

\* a pair scheduled again while its job was live: still one timer
C3_Witness ==
    \E k \in Keys : gen[k] >= 2 /\ Cardinality(Live(k)) = 1

\* C8 as stated: after any later call for the same (appointment id, offset
\* key), no job of an earlier call is live under the key, whatever trigger
\* instant the later call computes.
C8_LaterAlwaysSupersedes ==
    [][ Called =>
            \A k \in KeysOf(hist'.lastCall.id) :
                \A j \in timers' : j.key = k => j.serial > gen[k]
      ]_vars

\* C8 amended: the later call supersedes the earlier one for every offset
\* whose trigger instant, as the later call computes it, is strictly after the
\* current instant; an offset it skips keeps the job it had.
C8_LaterSupersedesUnlessSkipped ==
    [][ Called =>
            \A i \in Offsets :
                LET t == hist'.lastCall
                    k == JobKey(t.id, REMINDERS[i].key)
                    w == t.fecha_iso - REMINDERS[i].minus
                IN  IF w > now
                    THEN /\ \A j \in timers' : j.key = k => j.serial > gen[k]
                         /\ k \in DOMAIN jobsMap'
                         /\ {j \in timers' : j.key = k} = {jobsMap'[k]}
                         /\ jobsMap'[k].when = w
                    ELSE {j \in timers' : j.key = k} = Live(k)
      ]_vars

\* a job that replaced an earlier one of its key, the only one live
C8_Witness ==
    \E k \in DOMAIN jobsMap :
        /\ jobsMap[k].serial >= 2
        /\ Live(k) = {jobsMap[k]}
        /\ hist.ncalls >= 2

\* C11: recovery runs exactly once per process start and is complete before
\* anything else of the process runs: the process leaves "init" by one step,
\* the one in which every stored future turno gets its jobs, and never
\* re-enters it; and a step that books, deletes, arms a job or sends a
\* message is taken with recovery done.
C11_RecoverOnceBeforeHandlers ==
    [][ /\ pc = "polling" => pc' = "polling"
        /\ pc = "init" =>
              /\ db' = db /\ seq' = seq /\ sent' = sent
              /\ jobsMap = EmptyMap /\ timers = {}
              /\ (jobsMap' # jobsMap \/ timers' # timers) => pc' = "polling"
              /\ pc' = "polling" =>
                    \A p \in Recoverable :
                        JobKey(p[1].id, REMINDERS[p[2]].key) \in DOMAIN jobsMap'
      ]_vars

\* recovery armed the jobs of a stored turno, and /borrar ran afterwards: the
\* row is gone, its jobs are still there
C11_Witness ==
    /\ pc = "polling"
    /\ \E id \in 1..seq :
          /\ \A row \in db : row.id # id
          /\ \E k \in KeysOf(id) : k \in DOMAIN jobsMap /\ jobsMap[k].serial = 1

\* the rows of the table with this id and this chat
Matching(id, chatId) == {row \in db : row.id = id /\ row.chat_id = chatId}

\* C12: delete(id, subscriber) returns true exactly when a row with that id
\* and that subscriber existed, and then that one row is removed and no
\* other; otherwise it returns false and the table is left as it was.
C12_DeleteReturnsWhetherRemoved ==
    [][ (ret' # ret \/ (db' # db /\ db' \subseteq db)) =>
            LET hit == Matching(ret'.id, ret'.chat_id)
            IN  /\ Cardinality(hit) <= 1
                /\ ret'.changed = (hit # {})
                /\ db' = db \ hit
                /\ ~ret'.changed => db' = db
                /\ seq' = seq
      ]_vars

\* a delete of an existing id by another chat returned false and the row is
\* there, after an earlier delete removed a row
C12_Witness ==
    /\ ~ret.changed
    /\ \E row \in db : row.id = ret.id /\ row.chat_id # ret.chat_id
    /\ seq > Cardinality(db)

\* the job the Registry holds under key k changes or goes in this step
Dropped(k) == k \notin DOMAIN jobsMap' \/ jobsMap'[k] # jobsMap[k]

\* C13: a job is Scheduled from its creation until it is Fired or Cancelled,
\* and both are final: a timer is armed only for a job created in that step,
\* a timer ends either by the dispatch of its job or by a cancellation that
\* dispatches nothing, only an armed job dispatches, and the Registry holds
\* armed jobs only: a job it drops is not armed afterwards.
C13_JobLifecycle ==
    [][ /\ \A k \in DOMAIN jobsMap : jobsMap[k] \in timers
        /\ \A k \in DOMAIN jobsMap : Dropped(k) => jobsMap[k] \notin timers'
        /\ \A j \in timers' \ timers :
              /\ j.serial = gen[j.key] + 1
              /\ gen'[j.key] = j.serial
        /\ \A j \in timers \ timers' :
              /\ j.key \in DOMAIN jobsMap' => jobsMap'[j.key] # j
              /\ \/ sent' = sent (+) SetToBag({Msg(j)}) /\ lastSend'.job = j
                 \/ sent' = sent /\ Called
        /\ sent' # sent => lastSend'.job \in timers \ timers'
      ]_vars

\* one key with a cancelled job (serial 1) and its armed successor, beside a
\* job that has fired and is in neither the timers nor the Registry
C13_Witness ==
    /\ \E k \in DOMAIN jobsMap : jobsMap[k].serial = 2 /\ Live(k) = {jobsMap[k]}
    /\ lastSend.job.serial >= 1
    /\ lastSend.job \notin timers
    /\ lastSend.job.key \notin DOMAIN jobsMap

\* C14: a job that was cancelled while its timer was pending never dispatches:
\* the job of every dispatch is the newest one created under its key and the
\* one the Registry holds, and a call that cancels jobs dispatches nothing
\* itself; a cancellation takes no dispatched notification back.
C14_CancelledNeverDispatches ==
    [][ /\ sent' # sent =>
              LET j == lastSend'.job
              IN  /\ j.serial = gen[j.key]
                  /\ j.key \in DOMAIN jobsMap
                  /\ jobsMap[j.key] = j
                  /\ sent' = sent (+) SetToBag({Msg(j)})
        /\ Called =>
              /\ sent' = sent
              /\ \A j \in timers \ timers' :
                    \E n \in timers' : n.key = j.key /\ n.serial > j.serial
      ]_vars

\* the successor of a cancelled job has dispatched, once, and nothing else was
\* sent under that key
C14_Witness ==
    /\ lastSend.job.serial = 2
    /\ lastSend.job \notin timers
    /\ CopiesIn(Msg(lastSend.job), sent) = 1
    /\ \A m \in BagToSet(sent) : m.key = lastSend.job.key => m = Msg(lastSend.job)

\* the ids the keys are compared over, up to MaxKeyId
KeyIds == 1..MaxKeyId

\* distinct (id, offset) pairs give distinct keys
KeysInjective ==
    \A a, b \in KeyIds \X Offsets :
        JobKey(a[1], REMINDERS[a[2]].key) = JobKey(b[1], REMINDERS[b[2]].key)
            => a = b

\* C15: the keys are collision-free and a function of (id, offset) alone, so a
\* call of scheduleReminders for one appointment leaves every Registry entry
\* and every timer of any other appointment as it was.
C15_OtherAppointmentsUntouched ==
    [][ /\ KeysInjective
        /\ Called =>
              LET a == hist'.lastCall.id
              IN  /\ \A k \in DOMAIN jobsMap :
                        jobsMap[k].id # a =>
                            /\ k \in DOMAIN jobsMap'
                            /\ jobsMap'[k] = jobsMap[k]
                  /\ \A j \in timers : j.id # a => j \in timers'
                  /\ \A j \in timers' \ timers :
                        /\ j.id = a
                        /\ j.key \in KeysOf(a)
                  /\ \A k \in DOMAIN jobsMap' : jobsMap'[k].key = k
      ]_vars

\* a call for one appointment replaced its own jobs while the jobs of the
\* other appointment are armed
C15_Witness ==
    /\ hist.ncalls >= 2
    /\ \E k \in DOMAIN jobsMap :
          /\ jobsMap[k].id = hist.lastCall.id
          /\ jobsMap[k].serial = 2
    /\ \E k \in DOMAIN jobsMap :
          /\ jobsMap[k].id # hist.lastCall.id
          /\ jobsMap[k] \in timers

\* the place in REMINDERS of the offset a key of this id stands for
OffsetOf(id, key) == CHOOSE i \in Offsets : JobKey(id, REMINDERS[i].key) = key

\* C16: within one appointment the reminders fire in the order of their
\* trigger instants, which grow strictly as the lead shrinks: when a job
\* fires, no job of the same appointment with a larger lead is still pending
\* and every notification already sent for the appointment had a larger lead;
\* so the 30-minute reminder is the last.
C16_FiresInLeadOrder ==
    [][ /\ \A f \in Fechas : \A i, n \in Offsets :
              i < n => Trigger(f, REMINDERS[i]) < Trigger(f, REMINDERS[n])
        /\ sent' # sent =>
              LET j == lastSend'.job
                  i == OffsetOf(j.id, j.key)
              IN  /\ \A p \in timers :
                        p.id = j.id /\ p # j => OffsetOf(p.id, p.key) > i
                  /\ \A m \in BagToSet(sent) :
                        m.key \in KeysOf(j.id) => OffsetOf(j.id, m.key) < i
      ]_vars

\* all five reminders of one appointment were sent, the 30-minute one last
C16_Witness ==
    /\ lastSend.job.serial >= 1
    /\ lastSend.job.key = JobKey(lastSend.job.id, "30m")
    /\ \A k \in KeysOf(lastSend.job.id) : \E m \in BagToSet(sent) : m.key = k

\* C17: with the clock and the timers fair and no crash, every job in the
\* Registry eventually fires: from some point on the Registry and the timers
\* are empty for good and every key under which a job was ever armed (none is
\* cancelled here) has had its notification dispatched; and the Registry
\* holds no job of an appointment whose target instant has passed, so it is
\* empty once all of them have.
C17_EveryJobEventuallyFires ==
    /\ <>[](/\ jobsMap = EmptyMap
            /\ timers = {}
            /\ \A k \in Keys :
                  gen[k] >= 1 => \E m \in BagToSet(sent) : m.key = k)
    /\ [](\A k \in DOMAIN jobsMap : jobsMap[k].fecha_iso > now)

\* the Registry has emptied by firing: the last instant is reached, jobs were
\* armed and every one of them has dispatched
C17_Witness ==
    /\ pc = "polling"
    /\ \A u \in Instants : u <= now
    /\ jobsMap = EmptyMap
    /\ \E k \in Keys : gen[k] >= 1
    /\ \A k \in Keys : gen[k] >= 1 => \E m \in BagToSet(sent) : m.key = k

\* how many notifications were dispatched under key k
Dispatched(k) ==
    LET ms == {m \in BagToSet(sent) : m.key = k}
        RECURSIVE Sum(_)
        Sum(S) == IF S = {} THEN 0
                  ELSE LET m == CHOOSE x \in S : TRUE
                       IN  CopiesIn(m, sent) + Sum(S \ {m})
    IN  Sum(ms)

\* C18: over bookings, fires, crashes and restarts with recovery, the
\* notification of an (appointment, offset) pair is dispatched at most once:
\* recovery arms no job for a pair that has fired.
C18_AtMostOncePerPair ==
    /\ \A k \in Keys : Dispatched(k) <= 1
    /\ \A j \in timers : Dispatched(j.key) = 0

\* after a crash and the recovery that followed, an appointment has reminders
\* that fired before the crash and others armed again
C18_Witness ==
    /\ crashes >= 1
    /\ pc = "polling"
    /\ \E row \in db :
          /\ \E k \in KeysOf(row.id) : Dispatched(k) = 1 /\ k \notin DOMAIN jobsMap
          /\ \E k \in KeysOf(row.id) : k \in DOMAIN jobsMap
          /\ \E k \in KeysOf(row.id) : k \in missed

\* C19: the Registry and the pending timers agree: every pending timer is the
\* job the Registry holds under its key, every job of the Registry has its
\* timer pending, and the key a callback removes is that of its own job, so
\* no entry of a newer job is lost.
C19_RegistryMatchesTimers ==
    /\ [](/\ \A j \in timers : j.key \in DOMAIN jobsMap /\ jobsMap[j.key] = j
          /\ \A k \in DOMAIN jobsMap : jobsMap[k].key = k /\ jobsMap[k] \in timers
          /\ \A k \in Keys : Cardinality(Live(k)) <= 1)
    /\ [][ sent' # sent =>
              LET j == lastSend'.job
              IN  /\ jobsMap[j.key] = j
                  /\ DOMAIN jobsMap' = DOMAIN jobsMap \ {j.key}
                  /\ \A k \in DOMAIN jobsMap' : jobsMap'[k] = jobsMap[k]
                  /\ timers' = timers \ {j}
      ]_vars

\* a key whose first job was replaced: the successor is the only timer of
\* the key, while a job of another key has fired and taken its own key away
C19_Witness ==
    /\ \E k \in DOMAIN jobsMap :
          /\ jobsMap[k].serial = 2
          /\ Live(k) = {jobsMap[k]}
          /\ k # lastSend.job.key
    /\ lastSend.job.serial >= 1
    /\ lastSend.job.key \notin DOMAIN jobsMap
    /\ Cardinality(timers) >= 2

====
